---- MODULE Spec2Model ----
(***************************************************************************)
(* Quarter Master inventory backend: the multi-tenant item lifecycle.      *)
(*                                                                         *)
(* The model follows the Hono request pipeline of the items, qr and users  *)
(* routers (extractTenant -> authenticate -> authorize -> zValidator ->     *)
(* handler).                                                                *)
(* Every awaited database statement of a handler is one step of the worker *)
(* that serves the request, so the steps of concurrent requests interleave *)
(* exactly where the handlers await.  db.transaction(...) is one step: it  *)
(* commits all of its statements or none of them.                          *)
(***************************************************************************)
EXTENDS Integers, Sequences, FiniteSets, TLC

VARIABLES
    users,          \* table users: id -> [troopId, role, email]
    nextUser,       \* the number of the next users row the primary-key default creates
    items,          \* table items: id -> [troopId, name, status, qrCode]
    transactions,   \* table transactions, in insertion order
    nextItem,       \* the next item id handed out by the primary-key default
    req,            \* per worker: the request it serves and the context c
    edited          \* history: items whose status an update wrote after their last ledger row

vars == <<users, nextUser, items, transactions, nextItem, req, edited>>

----------------------------------------------------------------------------
(* Bounds *)

MaxItems == 1       \* item ids the model hands out
MaxTx == 2          \* ledger rows the model lets requests append
MaxUsers == 2       \* users rows the model lets requests create

Workers == DOMAIN req       \* the pool of request-handling workers
ItemIds == 1..MaxItems
QRSpace == 1..MaxItems      \* codes generateQRCode can return

----------------------------------------------------------------------------
(* Seeded rows and request inputs *)

NoId == 0
NoStr == "none"

troops == [tA |-> [slug |-> "troop-a"], tB |-> [slug |-> "troop-b"]]

SeedUsers ==
    [uA |-> [troopId |-> "tA", role |-> "admin", email |-> "admin@a"],
     uL |-> [troopId |-> "tA", role |-> "leader", email |-> "leader@a"],
     uS |-> [troopId |-> "tA", role |-> "scout", email |-> "scout@a"],
     uV |-> [troopId |-> "tA", role |-> "viewer", email |-> "viewer@a"],
     uB |-> [troopId |-> "tB", role |-> "admin", email |-> "admin@b"]]

Roles == {"admin", "leader", "scout", "viewer"}

Statuses == {"available", "checked_out", "needs_repair"}
\* x-troop-slug header values: absent, two live troops, one unknown slug
SlugInputs == {NoStr, "troop-a", "troop-b", "troop-x"}

\* Authorization header values: absent, undecodable, signed with another
\* secret, expired, and signed payloads that verify
TokenInputs ==
    {[kind |-> "absent", userId |-> NoStr, troopId |-> NoStr, role |-> NoStr],
     [kind |-> "invalid", userId |-> NoStr, troopId |-> NoStr, role |-> NoStr],
     [kind |-> "forged", userId |-> "uA", troopId |-> "tA", role |-> "admin"],
     [kind |-> "expired", userId |-> "uA", troopId |-> "tA", role |-> "admin"]}
    \cup {[kind |-> "signed", userId |-> u, troopId |-> SeedUsers[u].troopId,
            role |-> SeedUsers[u].role] : u \in DOMAIN SeedUsers}
    \cup {[kind |-> "signed", userId |-> "uGone", troopId |-> "tA", role |-> "admin"]}

UserOps == {"userCreate", "userUpdate", "userDelete"}
UserReads == {"userList", "userGet"}

Ops == {"list", "get", "create", "update", "delete", "checkout", "checkin", "scan", "mint"}

\* QR payload strings: JSON objects with the four fields, or not JSON at all
QRInputs ==
    [json : {TRUE}, type : {"quartermaster_item", "other"}, itemId : {NoId} \cup ItemIds,
     troopSlug : {"", "troop-a", "troop-b"}, timestamp : {0, 1}]
    \cup {[json |-> FALSE, type |-> "", itemId |-> NoId, troopSlug |-> "", timestamp |-> 0]}

NoQR == [json |-> FALSE, type |-> "", itemId |-> NoId, troopSlug |-> "", timestamp |-> 0]

\* Text the code takes apart or matches is a sequence of characters; NoText is
\* the empty string, which the handlers treat like an absent parameter.
NoText == <<>>

\* The characters of the enum values and of the names and descriptions in use
Spell ==
    [left |-> <<"l", "e", "f", "t">>, right |-> <<"r", "i", "g", "h", "t">>,
     low |-> <<"l", "o", "w">>, middle |-> <<"m", "i", "d", "d", "l", "e">>,
     high |-> <<"h", "i", "g", "h">>,
     tent |-> <<"t", "e", "n", "t">>, Tent |-> <<"T", "e", "n", "t">>,
     pot |-> <<"p", "o", "t">>, net |-> <<"n", "e", "t">>]

\* Query parameters of GET /api/items (itemFiltersSchema): all optional
NoFilter == [category |-> NoStr, status |-> NoStr, location |-> NoText, search |-> NoText]
StatusFilter(st) == [NoFilter EXCEPT !.status = st]

\* The descriptive columns a create body carries besides the name
TentShelf ==
    [description |-> NoStr, category |-> "permanent",
     locationSide |-> "left", locationLevel |-> "high"]

----------------------------------------------------------------------------
(* Responses *)

Resp(code, msg, body) == [code |-> code, msg |-> msg, body |-> body]
NoResp == Resp(0, NoStr, {})

\* The part of an item row a response is read for
ItemView(tbl, i) == [id |-> i, troopId |-> tbl[i].troopId, status |-> tbl[i].status]

\* select().from(items).where(eq(items.id, id)).limit(1), as a response body
RowById(tbl, i) == IF i \in DOMAIN tbl THEN {ItemView(tbl, i)} ELSE {}

----------------------------------------------------------------------------
(* The request context *)

IdleReq ==
    [pc |-> "idle", op |-> NoStr, slug |-> NoStr, troop |-> NoStr, tokKind |-> NoStr,
     tokUser |-> NoStr, tokTroop |-> NoStr, user |-> NoStr, role |-> NoStr,
     target |-> NoStr, email |-> NoStr, newRole |-> NoStr,
     id |-> NoId, status |-> NoStr, filter |-> NoFilter, uid |-> NoStr, qr |-> NoQR,
     seen |-> NoStr, seenTx |-> 0, resp |-> NoResp]

Reply(r, code, msg, body) ==
    [req EXCEPT ![r].pc = "done", ![r].resp = Resp(code, msg, body)]

Init ==
    /\ users = SeedUsers
    /\ nextUser = 1
    /\ items = <<>>
    /\ transactions = <<>>
    /\ nextItem = 1
    /\ req = [w \in {"w1", "w2"} |-> IdleReq]
    /\ edited = {}

----------------------------------------------------------------------------
(* Middleware *)

\* Variant: the lookup returns a troop whatever the slug
TroopBySlug_AnyTroop(slug) == DOMAIN troops

\* select().from(troops).where(eq(troops.slug, slug)).limit(1)
TroopBySlug(slug) == {t \in DOMAIN troops : troops[t].slug = slug}

InFlight(ops) ==
    Cardinality({w \in Workers : req[w].pc \notin {"idle", "done"} /\ req[w].op \in ops})

\* The model stops taking requests that would outgrow its bounds.
Admissible(op, mix) ==
    /\ op = "create" => nextItem + InFlight({"create"}) <= mix.maxItems
    /\ op \in {"checkout", "checkin"} =>
          Len(transactions) + InFlight({"checkout", "checkin"}) < MaxTx
    /\ op = "userCreate" => nextUser + InFlight({"userCreate"}) <= MaxUsers

\* A request arrives at a router and passes through extractTenant.
ExtractTenant(r, mix) ==
    /\ req[r].pc = "idle"
    /\ \E op \in mix.ops, troopSlug \in mix.slugs :
          /\ Admissible(op, mix)
          /\ IF troopSlug = NoStr
             THEN req' = Reply(r, 400, "Troop identifier required", {})
             ELSE IF TroopBySlug(troopSlug) = {}
             THEN req' = [Reply(r, 404, "Troop not found", {}) EXCEPT ![r].slug = troopSlug]
             ELSE req' = [req EXCEPT ![r].pc = "auth", ![r].op = op, ![r].slug = troopSlug,
                                     ![r].troop = CHOOSE t \in TroopBySlug(troopSlug) : TRUE]
    /\ UNCHANGED <<users, nextUser, items, transactions, nextItem, edited>>

\* Variant: the lookup trusts the troop id of the token alone
LookupTroop_PayloadOnly(troop, payloadTroop) == payloadTroop

\* The troop id authenticate scopes its user lookup by: troop?.id || payload.troopId
LookupTroop(troop, payloadTroop) == IF troop # NoStr THEN troop ELSE payloadTroop

\* Variant: the users row is looked up, but the role is the one in the token
AuthUser_TokenRole(tbl, troop, payload) ==
    {[id |-> u, role |-> payload.role] :
        u \in {v \in DOMAIN tbl :
                 v = payload.userId /\ tbl[v].troopId = LookupTroop(troop, payload.troopId)}}

\* Variant: the claims of the verified token are taken as the user
AuthUser_TokenOnly(tbl, troop, payload) ==
    {[id |-> payload.userId, role |-> payload.role]}

\* The users row authenticate selects for a verified payload
AuthUser(tbl, troop, payload) ==
    {[id |-> u, role |-> tbl[u].role] :
        u \in {v \in DOMAIN tbl :
                 v = payload.userId /\ tbl[v].troopId = LookupTroop(troop, payload.troopId)}}

\* Variant: the expiry of the token is not looked at
Verifies_IgnoresExpiry(token) == token.kind \in {"signed", "expired"}

\* jwt.verify(token, secret) returns the payload: the token decodes, carries
\* the signature of the secret and has not expired
Verifies(token) == token.kind = "signed"

Authenticate(r, mix) ==
    /\ req[r].pc = "auth"
    /\ \E token \in mix.tokens :
          IF token.kind = "absent"
          THEN req' = [Reply(r, 401, "Authentication required", {})
                       EXCEPT ![r].tokKind = token.kind]
          ELSE IF ~Verifies(token)
          THEN req' = [Reply(r, 401, "Invalid token", {})
                       EXCEPT ![r].tokKind = token.kind]
          ELSE LET found == AuthUser(users, req[r].troop, token)
                   seenReq == [req EXCEPT ![r].tokKind = token.kind,
                                          ![r].tokUser = token.userId,
                                          ![r].tokTroop = token.troopId]
               IN IF found = {}
                  THEN req' = [seenReq EXCEPT ![r].pc = "done",
                                 ![r].resp = Resp(401, "Invalid token or user not found", {})]
                  ELSE LET u == CHOOSE x \in found : TRUE
                       IN req' = [seenReq EXCEPT ![r].pc = "authz", ![r].user = u.id,
                                                 ![r].role = u.role]
    /\ UNCHANGED <<users, nextUser, items, transactions, nextItem, edited>>

\* Variant: every member of the troop may use every route
AllowedRoles_AnyMember(op) == Roles

\* The role list each route passes to authorize(); routes without authorize admit every role
AllowedRoles(op) ==
    CASE op \in {"create", "update"} -> {"admin", "leader"}
      [] op = "delete" -> {"admin"}
      [] op \in {"checkout", "checkin", "scan"} -> {"admin", "leader", "scout"}
      [] op \in UserOps -> {"admin"}
      [] op \in UserReads -> {"admin", "leader"}
      [] OTHER -> {"admin", "leader", "scout", "viewer"}

Authorize(r) ==
    /\ req[r].pc = "authz"
    /\ IF req[r].role \notin AllowedRoles(req[r].op)
       THEN req' = Reply(r, 403, "Insufficient permissions",
                         {[requiredRoles |-> AllowedRoles(req[r].op), userRole |-> req[r].role]})
       ELSE req' = [req EXCEPT ![r].pc = "valid"]
    /\ UNCHANGED <<users, nextUser, items, transactions, nextItem, edited>>

\* zValidator and the path parameter.  A body or query that does not match the
\* route's schema is answered 400 by the validator; the fields of an accepted
\* body are drawn in the handler step that first reads them.
HasValidator(op) == op \in {"list", "create", "update", "checkout", "checkin", "scan"}
HasIdParam(op) == op \in {"get", "update", "delete", "checkout", "checkin", "mint"}

Validate(r, mix) ==
    /\ req[r].pc = "valid"
    /\ \/ /\ HasValidator(req[r].op)
          /\ req' = Reply(r, 400, "Validation failed", {})
       \/ /\ HasIdParam(req[r].op)
          /\ \E id \in 1..mix.maxItems :
                req' = [req EXCEPT ![r].pc = "handler", ![r].id = id]
       \/ /\ ~HasIdParam(req[r].op)
          /\ req' = [req EXCEPT ![r].pc = "handler"]
    /\ UNCHANGED <<users, nextUser, items, transactions, nextItem, edited>>

----------------------------------------------------------------------------
(* Store helpers *)

\* Variant: the lookup is scoped by id only
FindInTroop_AnyTroop(tbl, id, troop) == {i \in DOMAIN tbl : i = id}

\* select().from(items).where(and(eq(items.id, id), eq(items.troopId, troop)))
FindInTroop(tbl, id, troop) == {i \in DOMAIN tbl : i = id /\ tbl[i].troopId = troop}

ItemTxs(log, id) == {k \in 1..Len(log) : log[k].itemId = id}

SetMax(S) == CHOOSE x \in S : \A y \in S : y <= x

\* action of the most recently inserted ledger row of an item
LastAction(log, id) ==
    IF ItemTxs(log, id) = {} THEN NoStr ELSE log[SetMax(ItemTxs(log, id))].action

\* ON DELETE cascade from items to transactions
RECURSIVE Cascade(_, _)
Cascade(log, id) ==
    IF log = <<>> THEN <<>>
    ELSE IF Head(log).itemId = id THEN Cascade(Tail(log), id)
    ELSE <<Head(log)>> \o Cascade(Tail(log), id)

\* The foreign keys of a transactions row: item_id -> items, user_id -> users
\* (user_id is nullable), troop_id -> troops
ForeignKeysHold(itemTbl, userTbl, row) ==
    /\ row.itemId \in DOMAIN itemTbl
    /\ row.troopId \in DOMAIN troops
    /\ row.userId # NoStr => row.userId \in DOMAIN userTbl

\* tx.update(items).set({status}).where(eq(items.id, id))
SetStatus(tbl, id, st) ==
    [i \in DOMAIN tbl |-> IF i = id THEN [tbl[i] EXCEPT !.status = st] ELSE tbl[i]]

\* Variant: the ledger row is inserted but the status write is lost
TxUnit_StatusLost(itemTbl, log, userTbl, id, st, row) ==
    IF ForeignKeysHold(itemTbl, userTbl, row)
    THEN [ok |-> TRUE, items |-> itemTbl, log |-> Append(log, row)]
    ELSE [ok |-> FALSE, items |-> itemTbl, log |-> log]

\* Variant: qr_code carries no unique index
QRTaken_NoIndex(tbl, qr) == FALSE

\* CREATE UNIQUE INDEX items_qr_code_unique ON items (qr_code): the code is in use
QRTaken(tbl, qr) == \E i \in DOMAIN tbl : tbl[i].qrCode = qr

\* Variant: two separate statements, so a failing insert leaves the status written
TxUnit_NoRollback(itemTbl, log, userTbl, id, st, row) ==
    IF ForeignKeysHold(itemTbl, userTbl, row)
    THEN [ok |-> TRUE, items |-> SetStatus(itemTbl, id, st), log |-> Append(log, row)]
    ELSE [ok |-> FALSE, items |-> SetStatus(itemTbl, id, st), log |-> log]

\* db.transaction: the status update and the ledger insert commit together;
\* a failing insert throws and rolls the update back.
TxUnit(itemTbl, log, userTbl, id, st, row) ==
    IF ForeignKeysHold(itemTbl, userTbl, row)
    THEN [ok |-> TRUE, items |-> SetStatus(itemTbl, id, st), log |-> Append(log, row)]
    ELSE [ok |-> FALSE, items |-> itemTbl, log |-> log]

\* filters.location.split("-"): the segments between the hyphens
RECURSIVE Split(_)
Split(s) ==
    IF \A k \in 1..Len(s) : s[k] # "-"
    THEN <<s>>
    ELSE LET k == CHOOSE j \in 1..Len(s) : s[j] = "-" /\ \A m \in 1..(j - 1) : s[m] # "-"
         IN <<SubSeq(s, 1, k - 1)>> \o Split(SubSeq(s, k + 1, Len(s)))

\* const [side, level] = filters.location.split("-"); the condition is pushed
\* only if (side && level), and then compares the two columns
LocationCondition(row, loc) ==
    LET parts == Split(loc)
        side == parts[1]
        level == IF Len(parts) >= 2 THEN parts[2] ELSE NoText
    IN (side # NoText /\ level # NoText) =>
          (Spell[row.locationSide] = side /\ Spell[row.locationLevel] = level)

\* SQLite compares the ASCII letters of a LIKE without regard to case
Fold(c) == IF c = "T" THEN "t" ELSE c

\* text LIKE pattern: % stands for any run of characters, _ for any one
RECURSIVE Like(_, _)
Like(pattern, text) ==
    IF pattern = <<>> THEN text = <<>>
    ELSE IF Head(pattern) = "%"
    THEN Like(Tail(pattern), text) \/ (text # <<>> /\ Like(pattern, Tail(text)))
    ELSE /\ text # <<>>
         /\ Head(pattern) = "_" \/ Fold(Head(pattern)) = Fold(Head(text))
         /\ Like(Tail(pattern), Tail(text))

\* or(like(items.name, `%${search}%`), like(items.description, `%${search}%`));
\* a NULL description matches nothing
SearchCondition(row, search) ==
    LET pattern == <<"%">> \o search \o <<"%">>
    IN \/ Like(pattern, Spell[row.name])
       \/ row.description # NoStr /\ Like(pattern, Spell[row.description])

\* Variant: the troop condition is missing from the list query
MatchesFilters_AnyTroop(tbl, i, troop, f) ==
    /\ f.category # NoStr => tbl[i].category = f.category
    /\ f.status # NoStr => tbl[i].status = f.status
    /\ f.location # NoText => LocationCondition(tbl[i], f.location)
    /\ f.search # NoText => SearchCondition(tbl[i], f.search)

\* the conditions GET /api/items pushes for the supplied filters
MatchesFilters(tbl, i, troop, f) ==
    /\ tbl[i].troopId = troop
    /\ f.category # NoStr => tbl[i].category = f.category
    /\ f.status # NoStr => tbl[i].status = f.status
    /\ f.location # NoText => LocationCondition(tbl[i], f.location)
    /\ f.search # NoText => SearchCondition(tbl[i], f.search)

----------------------------------------------------------------------------
(* Item handlers *)

AtHandler(r, op) == req[r].pc = "handler" /\ req[r].op = op

ListItems(r, mix) ==
    /\ AtHandler(r, "list")
    /\ \E f \in mix.filters :
          req' = [Reply(r, 200, "ok",
                        {ItemView(items, i) : i \in
                            {j \in DOMAIN items : MatchesFilters(items, j, req[r].troop, f)}})
                  EXCEPT ![r].status = f.status, ![r].filter = f]
    /\ UNCHANGED <<users, nextUser, items, transactions, nextItem, edited>>

GetItem(r) ==
    /\ AtHandler(r, "get")
    /\ IF FindInTroop(items, req[r].id, req[r].troop) = {}
       THEN req' = Reply(r, 404, "Item not found", {})
       ELSE req' = Reply(r, 200, "ok", {ItemView(items, req[r].id)})
    /\ UNCHANGED <<users, nextUser, items, transactions, nextItem, edited>>

CreateItem(r, mix) ==
    /\ AtHandler(r, "create")
    /\ nextItem <= mix.maxItems
    /\ \E qr \in mix.qrs[nextItem], nm \in mix.names, sh \in mix.shelves :
          IF QRTaken(items, qr)
          THEN \* unique index items_qr_code_unique rejects the insert
               /\ req' = Reply(r, 500, "Failed to create item", {})
               /\ UNCHANGED <<items, nextItem>>
          ELSE LET row == [troopId |-> req[r].troop, name |-> nm,
                           status |-> "available", qrCode |-> qr,
                           description |-> sh.description, category |-> sh.category,
                           locationSide |-> sh.locationSide,
                           locationLevel |-> sh.locationLevel]
                   tbl == [i \in DOMAIN items \cup {nextItem} |->
                              IF i = nextItem THEN row ELSE items[i]]
               IN /\ items' = tbl
                  /\ nextItem' = nextItem + 1
                  /\ req' = Reply(r, 201, "ok", {ItemView(tbl, nextItem)})
    /\ UNCHANGED <<users, nextUser, transactions, edited>>

\* Variant: a patch without a status writes the column default
ApplyPatch_DefaultStatus(row, nm, st) ==
    [row EXCEPT !.name = IF nm = NoStr THEN @ ELSE nm,
                !.status = IF st = NoStr THEN "available" ELSE st]

\* the row PUT writes: ...updateData over the stored row
ApplyPatch(row, nm, st) ==
    [row EXCEPT !.name = IF nm = NoStr THEN @ ELSE nm,
                !.status = IF st = NoStr THEN @ ELSE st]

UpdateCheck(r) ==
    /\ AtHandler(r, "update")
    /\ IF FindInTroop(items, req[r].id, req[r].troop) = {}
       THEN req' = Reply(r, 404, "Item not found", {})
       ELSE req' = [req EXCEPT ![r].pc = "write"]
    /\ UNCHANGED <<users, nextUser, items, transactions, nextItem, edited>>

UpdateWrite(r, mix) ==
    /\ req[r].pc = "write" /\ req[r].op = "update"
    /\ \E nm \in mix.names \cup {NoStr}, st \in mix.patches :
          LET id == req[r].id
              tbl == [i \in DOMAIN items |->
                         IF i = id THEN ApplyPatch(items[i], nm, st) ELSE items[i]]
          IN /\ items' = tbl
             /\ req' = [Reply(r, 200, "ok", RowById(tbl, id)) EXCEPT ![r].status = st]
             /\ edited' = IF id \in DOMAIN items /\ st # NoStr
                          THEN edited \cup {id} ELSE edited
    /\ UNCHANGED <<users, nextUser, transactions, nextItem>>

DeleteCheck(r) ==
    /\ AtHandler(r, "delete")
    /\ IF FindInTroop(items, req[r].id, req[r].troop) = {}
       THEN req' = Reply(r, 404, "Item not found", {})
       ELSE req' = [req EXCEPT ![r].pc = "write"]
    /\ UNCHANGED <<users, nextUser, items, transactions, nextItem, edited>>

DeleteWrite(r) ==
    /\ req[r].pc = "write" /\ req[r].op = "delete"
    /\ LET id == req[r].id
       IN /\ items' = [i \in DOMAIN items \ {id} |-> items[i]]
          /\ transactions' = Cascade(transactions, id)
          /\ edited' = edited \ {id}
    /\ req' = Reply(r, 200, "Item deleted successfully", {})
    /\ UNCHANGED <<users, nextUser, nextItem>>

----------------------------------------------------------------------------
(* Checkout / checkin *)

\* Status the route requires before it enters the transaction, and the one it writes
Required(op) == IF op = "checkout" THEN "available" ELSE "checked_out"
Target(op) == IF op = "checkout" THEN "checked_out" ELSE "available"
ActionOf(op) == IF op = "checkout" THEN "check_out" ELSE "check_in"
Refusal(op) ==
    IF op = "checkout" THEN "Item is not available for checkout" ELSE "Item is not checked out"
Failure(op) == IF op = "checkout" THEN "Failed to checkout item" ELSE "Failed to checkin item"

\* Variant: only the opposite state is refused, so needs_repair passes
WrongStatus_OnlyOpposite(op, st) == st = Target(op)

\* item[0].status !== "available" (checkout) / !== "checked_out" (checkin)
WrongStatus(op, st) == st # Required(op)

\* First statement of both handlers: load the item scoped to the troop, then
\* check its status in application code.
StatusRead(r) ==
    /\ req[r].pc = "handler" /\ req[r].op \in {"checkout", "checkin"}
    /\ LET id == req[r].id op == req[r].op
       IN IF FindInTroop(items, id, req[r].troop) = {}
          THEN req' = Reply(r, 404, "Item not found", {})
          ELSE LET noted == [req EXCEPT ![r].seen = items[id].status,
                                        ![r].seenTx = Cardinality(ItemTxs(transactions, id))]
               IN IF WrongStatus(op, items[id].status)
                  THEN req' = [noted EXCEPT ![r].pc = "done",
                                            ![r].resp = Resp(400, Refusal(op), {})]
                  ELSE req' = [noted EXCEPT ![r].pc = "tx"]
    /\ UNCHANGED <<users, nextUser, items, transactions, nextItem, edited>>

\* userId of the ledger row: checkoutData.userId || user.id ; checkin: user.id
LedgerUser(op, uid, user) == IF op = "checkout" /\ uid # NoStr THEN uid ELSE user

LedgerRow(r, uid) ==
    [troopId |-> req[r].troop, itemId |-> req[r].id,
     userId |-> LedgerUser(req[r].op, uid, req[r].user), action |-> ActionOf(req[r].op)]

\* Second statement: db.transaction(update status; insert ledger row)
StatusTx(r, mix) ==
    /\ req[r].pc = "tx" /\ req[r].op \in {"checkout", "checkin"}
    /\ \E uid \in IF req[r].op = "checkout" THEN mix.uids ELSE {NoStr} :
          LET id == req[r].id
              op == req[r].op
              out == TxUnit(items, transactions, users, id, Target(op), LedgerRow(r, uid))
          IN /\ items' = out.items
             /\ transactions' = out.log
             /\ IF out.ok
                THEN /\ req' = [req EXCEPT ![r].pc = "reread", ![r].uid = uid]
                     /\ edited' = edited \ {id}
                ELSE /\ req' = [Reply(r, 500, Failure(op), {}) EXCEPT ![r].uid = uid]
                     /\ edited' = edited
    /\ UNCHANGED <<users, nextUser, nextItem>>

\* Third statement: select the item again, by id only, and return it
StatusReturn(r) ==
    /\ req[r].pc = "reread" /\ req[r].op \in {"checkout", "checkin"}
    /\ req' = Reply(r, 200, "ok", RowById(items, req[r].id))
    /\ UNCHANGED <<users, nextUser, items, transactions, nextItem, edited>>

----------------------------------------------------------------------------
(* QR scan *)

\* QRCodeService.parseQRCode: TRUE when it returns the parsed data, FALSE for null
parseQRCode(q) ==
    /\ q.json
    /\ q.type = "quartermaster_item"
    /\ q.itemId # NoId
    /\ q.troopSlug # ""
    /\ q.timestamp # 0

NoData == [type |-> "", itemId |-> NoId, troopSlug |-> "", timestamp |-> 0]

\* Variant: the decoder stamps the data with the time of the scan
QRData_StampLost(q) ==
    IF parseQRCode(q)
    THEN [type |-> q.type, itemId |-> q.itemId, troopSlug |-> q.troopSlug,
          timestamp |-> q.timestamp + 1]
    ELSE NoData

\* The QRCodeData object parseQRCode returns (NoData stands for null)
QRData(q) ==
    IF parseQRCode(q)
    THEN [type |-> q.type, itemId |-> q.itemId, troopSlug |-> q.troopSlug,
          timestamp |-> q.timestamp]
    ELSE NoData

\* Variant: the payload always names the first troop
stringify_FixedSlug(itemId, troopSlug, now) ==
    [json |-> TRUE, type |-> "quartermaster_item", itemId |-> itemId,
     troopSlug |-> "troop-a", timestamp |-> now]

\* JSON.stringify(qrData) of generateQRCodeImage / generateQRCodeSVG, issued at time now
stringify(itemId, troopSlug, now) ==
    [json |-> TRUE, type |-> "quartermaster_item", itemId |-> itemId,
     troopSlug |-> troopSlug, timestamp |-> now]

\* QRCodeService.findItemByQRCode
findItemByQRCode(tbl, q, troop) == FindInTroop(tbl, q.itemId, troop)

\* Variant: the troop of the payload is not compared
SameTroop_Unchecked(q, troop) == TRUE

\* TRUE when the scanned payload names the requesting troop
SameTroop(q, troop) == q.troopSlug = troops[troop].slug

Scan(r, mix) ==
    /\ AtHandler(r, "scan")
    /\ \E q \in mix.payloads :
          LET out == IF ~parseQRCode(q)
                     THEN Reply(r, 400, "Invalid QR code format", {})
                     ELSE IF ~SameTroop(q, req[r].troop)
                     THEN Reply(r, 403, "QR code does not belong to your troop", {})
                     ELSE IF findItemByQRCode(items, q, req[r].troop) = {}
                     THEN Reply(r, 404, "Item not found or has been deleted", {})
                     ELSE Reply(r, 200, "ok", {ItemView(items, q.itemId)})
          IN req' = [out EXCEPT ![r].qr = q]
    /\ UNCHANGED <<users, nextUser, items, transactions, nextItem, edited>>

\* GET /api/qr/:itemId: the payload is encoded once the item is found in the troop
Mint(r, mix) ==
    /\ AtHandler(r, "mint")
    /\ IF FindInTroop(items, req[r].id, req[r].troop) = {}
       THEN req' = Reply(r, 404, "Item not found", {})
       ELSE \E now \in mix.clock :
               req' = [Reply(r, 200, "ok", {ItemView(items, req[r].id)})
                       EXCEPT ![r].qr = stringify(req[r].id, troops[req[r].troop].slug, now)]
    /\ UNCHANGED <<users, nextUser, items, transactions, nextItem, edited>>

----------------------------------------------------------------------------
(* User administration: POST, PUT and DELETE of the users router.  Each    *)
(* handler parses its body itself; NoStr stands for a field the body does  *)
(* not carry.                                                              *)

\* id of the k-th users row created: crypto.randomUUID(), never handed out twice
NewUserId(k) == "n" \o ToString(k)

\* select().from(users).where(and(eq(users.id, id), eq(users.troopId, troop)))
UserInTroop(tbl, id, troop) == {u \in DOMAIN tbl : u = id /\ tbl[u].troopId = troop}

\* select({id}).from(users).where(eq(users.email, email)): the troop takes no part
EmailTaken(tbl, em, troop) == \E u \in DOMAIN tbl : tbl[u].email = em

\* Variant: the guard is missing
SelfDemotion_Unguarded(target, user, role) == FALSE

\* userId === currentUser.id && validatedData.role && validatedData.role !== "admin"
SelfDemotion(target, user, role) == target = user /\ role # NoStr /\ role # "admin"

\* a ledger row names the user
Referenced(log, id) == \E k \in 1..Len(log) : log[k].userId = id

\* Variant: user_id REFERENCES users(id) ON DELETE cascade
DeleteUser_Cascade(userTbl, log, id, troop) ==
    LET gone == UserInTroop(userTbl, id, troop)
    IN [ok |-> TRUE,
        users |-> [u \in DOMAIN userTbl \ gone |-> userTbl[u]],
        log |-> SelectSeq(log, LAMBDA row : row.userId \notin gone)]

\* delete(users).where(and(eq(id), eq(troopId))) under user_id REFERENCES
\* users(id) ON DELETE no action: the statement throws while a ledger row
\* names the user, and never touches the ledger
DeleteUser(userTbl, log, id, troop) ==
    LET gone == UserInTroop(userTbl, id, troop)
    IN IF gone # {} /\ Referenced(log, id)
       THEN [ok |-> FALSE, users |-> userTbl, log |-> log]
       ELSE [ok |-> TRUE, users |-> [u \in DOMAIN userTbl \ gone |-> userTbl[u]], log |-> log]

\* The columns of a users row the users router returns
UserView(tbl, u) == [id |-> u, role |-> tbl[u].role, email |-> tbl[u].email]

\* GET /api/users: select ... where(eq(users.troopId, troop.id))
UserList(r) ==
    /\ AtHandler(r, "userList")
    /\ req' = Reply(r, 200, "ok",
                    {UserView(users, u) : u \in {v \in DOMAIN users :
                                                    users[v].troopId = req[r].troop}})
    /\ UNCHANGED <<users, nextUser, items, transactions, nextItem, edited>>

\* GET /api/users/:id
UserGet(r, mix) ==
    /\ AtHandler(r, "userGet")
    /\ \E tg \in mix.targets :
          LET noted == [req EXCEPT ![r].target = tg]
          IN IF UserInTroop(users, tg, req[r].troop) = {}
             THEN req' = [noted EXCEPT ![r].pc = "done",
                                       ![r].resp = Resp(404, "User not found", {})]
             ELSE req' = [noted EXCEPT ![r].pc = "done",
                                       ![r].resp = Resp(200, "ok", {UserView(users, tg)})]
    /\ UNCHANGED <<users, nextUser, items, transactions, nextItem, edited>>

UserCreateCheck(r, mix) ==
    /\ AtHandler(r, "userCreate")
    /\ \/ req' = Reply(r, 400, "Invalid input data", {})
       \/ \E em \in mix.emails, ro \in mix.roles :
             IF EmailTaken(users, em, req[r].troop)
             THEN req' = [Reply(r, 409, "User with this email already exists", {})
                          EXCEPT ![r].email = em]
             ELSE req' = [req EXCEPT ![r].pc = "write", ![r].email = em, ![r].newRole = ro]
    /\ UNCHANGED <<users, nextUser, items, transactions, nextItem, edited>>

UserCreateWrite(r) ==
    /\ req[r].pc = "write" /\ req[r].op = "userCreate"
    /\ nextUser <= MaxUsers
    /\ LET id == NewUserId(nextUser)
           row == [troopId |-> req[r].troop, role |-> req[r].newRole, email |-> req[r].email]
       IN /\ users' = [u \in DOMAIN users \cup {id} |-> IF u = id THEN row ELSE users[u]]
          /\ nextUser' = nextUser + 1
          /\ req' = [Reply(r, 201, "ok", {}) EXCEPT ![r].target = id]
    /\ UNCHANGED <<items, transactions, nextItem, edited>>

UserUpdateCheck(r, mix) ==
    /\ AtHandler(r, "userUpdate")
    /\ \/ req' = Reply(r, 400, "Invalid input data", {})
       \/ \E tg \in mix.targets, em \in mix.emails \cup {NoStr}, ro \in mix.roles \cup {NoStr} :
             LET noted == [req EXCEPT ![r].target = tg, ![r].email = em, ![r].newRole = ro]
             IN IF UserInTroop(users, tg, req[r].troop) = {}
                THEN req' = [noted EXCEPT ![r].pc = "done",
                                          ![r].resp = Resp(404, "User not found", {})]
                ELSE IF SelfDemotion(tg, req[r].user, ro)
                THEN req' = [noted EXCEPT ![r].pc = "done",
                               ![r].resp = Resp(403, "Cannot change your own admin role", {})]
                ELSE IF em # NoStr /\ em # users[tg].email
                THEN req' = [noted EXCEPT ![r].pc = "email"]
                ELSE req' = [noted EXCEPT ![r].pc = "write"]
    /\ UNCHANGED <<users, nextUser, items, transactions, nextItem, edited>>

\* select({id}).from(users).where(and(eq(users.email, email), ne(users.id, userId)))
UserUpdateEmail(r) ==
    /\ req[r].pc = "email" /\ req[r].op = "userUpdate"
    /\ IF \E u \in DOMAIN users : users[u].email = req[r].email /\ u # req[r].target
       THEN req' = Reply(r, 409, "Email already in use by another user", {})
       ELSE req' = [req EXCEPT ![r].pc = "write"]
    /\ UNCHANGED <<users, nextUser, items, transactions, nextItem, edited>>

\* update(users).set({...validatedData}).where(and(eq(id), eq(troopId)))
UserUpdateWrite(r) ==
    /\ req[r].pc = "write" /\ req[r].op = "userUpdate"
    /\ users' = [u \in DOMAIN users |->
                    IF u \in UserInTroop(users, req[r].target, req[r].troop)
                    THEN [users[u] EXCEPT
                            !.email = IF req[r].email = NoStr THEN @ ELSE req[r].email,
                            !.role = IF req[r].newRole = NoStr THEN @ ELSE req[r].newRole]
                    ELSE users[u]]
    /\ req' = Reply(r, 200, "ok", {})
    /\ UNCHANGED <<nextUser, items, transactions, nextItem, edited>>

UserDeleteCheck(r, mix) ==
    /\ AtHandler(r, "userDelete")
    /\ \E tg \in mix.targets :
          LET noted == [req EXCEPT ![r].target = tg]
          IN IF tg = req[r].user
             THEN req' = [noted EXCEPT ![r].pc = "done",
                            ![r].resp = Resp(403, "Cannot delete your own account", {})]
             ELSE IF UserInTroop(users, tg, req[r].troop) = {}
             THEN req' = [noted EXCEPT ![r].pc = "done",
                                       ![r].resp = Resp(404, "User not found", {})]
             ELSE req' = [noted EXCEPT ![r].pc = "write"]
    /\ UNCHANGED <<users, nextUser, items, transactions, nextItem, edited>>

UserDeleteWrite(r) ==
    /\ req[r].pc = "write" /\ req[r].op = "userDelete"
    /\ LET out == DeleteUser(users, transactions, req[r].target, req[r].troop)
       IN /\ users' = out.users
          /\ transactions' = out.log
          /\ req' = IF out.ok
                    THEN Reply(r, 200, "User deleted successfully", {})
                    ELSE Reply(r, 500, "Internal server error", {})
    /\ UNCHANGED <<nextUser, items, nextItem, edited>>

----------------------------------------------------------------------------
(* The worker returns to the pool once the response is sent. *)

Finish(r) ==
    /\ req[r].pc = "done"
    /\ req' = [req EXCEPT ![r] = IdleReq]
    /\ UNCHANGED <<users, nextUser, items, transactions, nextItem, edited>>

Signed(u) ==
    [kind |-> "signed", userId |-> u, troopId |-> SeedUsers[u].troopId,
     role |-> SeedUsers[u].role]

----------------------------------------------------------------------------
(* Lifecycle: members of one troop work its inventory concurrently.  Each  *)
(* creation gets a fresh code; a patch carries no status, or one of the   *)
(* two statuses a checkout cannot start from.                             *)

LifecycleMix ==
    [ops |-> {"create", "update", "delete", "checkout", "checkin"},
     slugs |-> {"troop-a"},
     tokens |-> {Signed("uA")},
     filters |-> {NoFilter},
     names |-> {"tent"},
     shelves |-> {TentShelf},
     patches |-> {NoStr, "needs_repair", "checked_out"},
     uids |-> {NoStr, "uGone"},
     payloads |-> {NoQR},
     qrs |-> [i \in ItemIds |-> {i}],
     maxItems |-> MaxItems]

Lifecycle(r) ==
    \/ ExtractTenant(r, LifecycleMix)
    \/ Authenticate(r, LifecycleMix)
    \/ Authorize(r)
    \/ Validate(r, LifecycleMix)
    \/ CreateItem(r, LifecycleMix)
    \/ UpdateCheck(r)
    \/ UpdateWrite(r, LifecycleMix)
    \/ DeleteCheck(r)
    \/ DeleteWrite(r)
    \/ StatusRead(r)
    \/ StatusTx(r, LifecycleMix)
    \/ StatusReturn(r)
    \/ Finish(r)

Next == \E r \in Workers : Lifecycle(r)

Spec == Init /\ [][Next]_vars

----------------------------------------------------------------------------
(* Tenancy: requests of both troops, with every kind of selector and token. *)

TenancyMix ==
    [ops |-> Ops,
     slugs |-> SlugInputs,
     tokens |-> TokenInputs,
     filters |-> {StatusFilter(st) : st \in Statuses \cup {NoStr}},
     names |-> {"tent"},
     shelves |-> {TentShelf},
     patches |-> {NoStr, "needs_repair"},
     uids |-> {NoStr},
     payloads |-> QRInputs,
     qrs |-> [i \in ItemIds |-> QRSpace],
     clock |-> {1, 2},
     maxItems |-> MaxItems]

Tenancy(r) ==
    \/ ExtractTenant(r, TenancyMix)
    \/ Authenticate(r, TenancyMix)
    \/ Authorize(r)
    \/ Validate(r, TenancyMix)
    \/ ListItems(r, TenancyMix)
    \/ GetItem(r)
    \/ CreateItem(r, TenancyMix)
    \/ UpdateCheck(r)
    \/ UpdateWrite(r, TenancyMix)
    \/ DeleteCheck(r)
    \/ DeleteWrite(r)
    \/ StatusRead(r)
    \/ StatusTx(r, TenancyMix)
    \/ StatusReturn(r)
    \/ Scan(r, TenancyMix)
    \/ Mint(r, TenancyMix)
    \/ Finish(r)

InitTenancy ==
    /\ users = SeedUsers
    /\ nextUser = 1
    /\ items = <<>>
    /\ transactions = <<>>
    /\ nextItem = 1
    /\ req = [w \in {"w1"} |-> IdleReq]
    /\ edited = {}

NextTenancy == \E r \in Workers : Tenancy(r)

SpecTenancy == InitTenancy /\ [][NextTenancy]_vars

----------------------------------------------------------------------------
(* Catalogue: the admins of both troops fill their inventories; there is   *)
(* one item more than the bound, and as many codes as items.  A checkout   *)
(* is recorded for the requester or for the admin of troop-b.              *)

CatalogMix ==
    [ops |-> {"create", "update", "checkout", "checkin"},
     slugs |-> {"troop-a", "troop-b"},
     tokens |-> {Signed("uA"), Signed("uB")},
     names |-> {"tent"},
     shelves |-> {TentShelf},
     patches |-> {NoStr},
     uids |-> {NoStr, "uB"},
     qrs |-> [i \in 1..(MaxItems + 1) |-> 1..(MaxItems + 1)],
     maxItems |-> MaxItems + 1]

Catalog(r) ==
    \/ ExtractTenant(r, CatalogMix)
    \/ Authenticate(r, CatalogMix)
    \/ Authorize(r)
    \/ Validate(r, CatalogMix)
    \/ CreateItem(r, CatalogMix)
    \/ UpdateCheck(r)
    \/ UpdateWrite(r, CatalogMix)
    \/ StatusRead(r)
    \/ StatusTx(r, CatalogMix)
    \/ StatusReturn(r)
    \/ Finish(r)

NextCatalog == \E r \in Workers : Catalog(r)

SpecCatalog == InitTenancy /\ [][NextCatalog]_vars

----------------------------------------------------------------------------
(* Administration: the admins of a seeded troop promote, demote and delete *)
(* its members while the tent of the seed is checked out by the scout.      *)

UsersMix ==
    [ops |-> {"userUpdate", "userDelete", "delete", "checkin"},
     slugs |-> {"troop-a"},
     tokens |-> {Signed("uA"), Signed("uS")},
     uids |-> {NoStr},
     emails |-> {},
     roles |-> {"admin", "scout"},
     targets |-> {"uA", "uS"},
     maxItems |-> MaxItems]

Administration(r) ==
    \/ ExtractTenant(r, UsersMix)
    \/ Authenticate(r, UsersMix)
    \/ Authorize(r)
    \/ Validate(r, UsersMix)
    \/ UserUpdateCheck(r, UsersMix)
    \/ UserUpdateWrite(r)
    \/ UserDeleteCheck(r, UsersMix)
    \/ UserDeleteWrite(r)
    \/ DeleteCheck(r)
    \/ DeleteWrite(r)
    \/ StatusRead(r)
    \/ StatusTx(r, UsersMix)
    \/ StatusReturn(r)
    \/ Finish(r)

\* seed.ts: the sample items, and the sample checkout of the tent by the scout
InitUsers ==
    /\ users = SeedUsers
    /\ nextUser = 1
    /\ items = [i \in {1} |-> [troopId |-> "tA", name |-> "tent",
                                status |-> "checked_out", qrCode |-> 1,
                                description |-> NoStr, category |-> "permanent",
                                locationSide |-> "left", locationLevel |-> "high"]]
    /\ transactions = <<[troopId |-> "tA", itemId |-> 1, userId |-> "uS",
                         action |-> "check_out"]>>
    /\ nextItem = 2
    /\ req = [w \in {"w1", "w2"} |-> IdleReq]
    /\ edited = {}

NextUsers == \E r \in Workers : Administration(r)

SpecUsers == InitUsers /\ [][NextUsers]_vars

----------------------------------------------------------------------------
(* Enrolment: the admins of both troops create users and change emails.    *)

EmailMix ==
    [ops |-> {"userCreate", "userUpdate"},
     slugs |-> {"troop-a", "troop-b"},
     tokens |-> {Signed("uA"), Signed("uB")},
     emails |-> {"scout@a", "new@a"},
     roles |-> {"scout"},
     targets |-> {"uS"},
     maxItems |-> MaxItems]

Enrolment(r) ==
    \/ ExtractTenant(r, EmailMix)
    \/ Authenticate(r, EmailMix)
    \/ Authorize(r)
    \/ Validate(r, EmailMix)
    \/ UserCreateCheck(r, EmailMix)
    \/ UserCreateWrite(r)
    \/ UserUpdateCheck(r, EmailMix)
    \/ UserUpdateEmail(r)
    \/ UserUpdateWrite(r)
    \/ Finish(r)

NextEmails == \E r \in Workers : Enrolment(r)

SpecEmails == Init /\ [][NextEmails]_vars

----------------------------------------------------------------------------
(* Labels: the admins of both troops create and delete items, print their  *)
(* labels and scan the payloads the label route can have issued; there is *)
(* one item more than the bound.                                           *)

LabelMix ==
    [ops |-> {"create", "delete", "mint", "scan"},
     slugs |-> {"troop-a", "troop-b"},
     tokens |-> {Signed("uA"), Signed("uB")},
     names |-> {"tent"},
     shelves |-> {TentShelf},
     qrs |-> [i \in 1..(MaxItems + 1) |-> {i}],
     clock |-> {1},
     payloads |-> {stringify(i, sl, 1) : i \in 1..(MaxItems + 1),
                                         sl \in {"troop-a", "troop-b"}},
     maxItems |-> MaxItems + 1]

Labels(r) ==
    \/ ExtractTenant(r, LabelMix)
    \/ Authenticate(r, LabelMix)
    \/ Authorize(r)
    \/ Validate(r, LabelMix)
    \/ CreateItem(r, LabelMix)
    \/ DeleteCheck(r)
    \/ DeleteWrite(r)
    \/ Mint(r, LabelMix)
    \/ Scan(r, LabelMix)
    \/ Finish(r)

NextLabels == \E r \in Workers : Labels(r)

SpecLabels == Init /\ [][NextLabels]_vars

----------------------------------------------------------------------------
(* Shelves: the admins of both troops stock two kinds of item and list     *)
(* them with every combination of filters; there is one item more than the *)
(* bound.                                                                   *)

PotShelf ==
    [description |-> "net", category |-> "staples",
     locationSide |-> "right", locationLevel |-> "low"]

\* location parameters: absent, left-high, left, left-high-low
LocationInputs ==
    {NoText,
     Spell["left"] \o <<"-">> \o Spell["high"],
     Spell["left"],
     Spell["left"] \o <<"-">> \o Spell["high"] \o <<"-">> \o Spell["low"]}

\* search parameters: absent, ten, ne, _
SearchInputs == {NoText, <<"t", "e", "n">>, <<"n", "e">>, <<"_">>}

ShelvesMix ==
    [ops |-> {"create", "list"},
     slugs |-> {"troop-a", "troop-b"},
     tokens |-> {Signed("uA"), Signed("uB")},
     filters |-> [category : {NoStr, "staples"}, status : {NoStr, "checked_out"},
                  location : LocationInputs, search : SearchInputs],
     names |-> {"Tent", "pot"},
     shelves |-> {TentShelf, PotShelf},
     qrs |-> [i \in 1..(MaxItems + 1) |-> {i}],
     maxItems |-> MaxItems + 1]

Shelves(r) ==
    \/ ExtractTenant(r, ShelvesMix)
    \/ Authenticate(r, ShelvesMix)
    \/ Authorize(r)
    \/ Validate(r, ShelvesMix)
    \/ CreateItem(r, ShelvesMix)
    \/ ListItems(r, ShelvesMix)
    \/ Finish(r)

NextShelves == \E r \in Workers : Shelves(r)

SpecShelves == InitTenancy /\ [][NextShelves]_vars

----------------------------------------------------------------------------
(* Outcomes: members of the seeded troop send requests that fail at every  *)
(* stage of the pipeline while others of them succeed.                     *)

OutcomesMix ==
    [ops |-> {"checkout", "checkin", "userUpdate", "userDelete"},
     slugs |-> {NoStr, "troop-a", "troop-x"},
     tokens |-> {[kind |-> "absent", userId |-> NoStr, troopId |-> NoStr, role |-> NoStr],
                 Signed("uA"), Signed("uL"), Signed("uV")},
     uids |-> {NoStr},
     emails |-> {},
     roles |-> {"scout"},
     targets |-> {"uL", "uGone"},
     maxItems |-> MaxItems]

Outcomes(r) ==
    \/ ExtractTenant(r, OutcomesMix)
    \/ Authenticate(r, OutcomesMix)
    \/ Authorize(r)
    \/ Validate(r, OutcomesMix)
    \/ UserUpdateCheck(r, OutcomesMix)
    \/ UserUpdateWrite(r)
    \/ UserDeleteCheck(r, OutcomesMix)
    \/ UserDeleteWrite(r)
    \/ StatusRead(r)
    \/ StatusTx(r, OutcomesMix)
    \/ StatusReturn(r)
    \/ Finish(r)

NextOutcomes == \E r \in Workers : Outcomes(r)

SpecOutcomes == InitUsers /\ [][NextOutcomes]_vars

----------------------------------------------------------------------------
(* Roster: every member of the seeded troop tries every route of the users *)
(* router.                                                                  *)

RosterMix ==
    [ops |-> UserOps \cup UserReads,
     slugs |-> {"troop-a"},
     tokens |-> {Signed("uA"), Signed("uL"), Signed("uS"), Signed("uV")},
     emails |-> {"new@a"},
     roles |-> {"leader"},
     targets |-> {"uL", "uV"},
     maxItems |-> MaxItems]

Roster(r) ==
    \/ ExtractTenant(r, RosterMix)
    \/ Authenticate(r, RosterMix)
    \/ Authorize(r)
    \/ Validate(r, RosterMix)
    \/ UserList(r)
    \/ UserGet(r, RosterMix)
    \/ UserCreateCheck(r, RosterMix)
    \/ UserCreateWrite(r)
    \/ UserUpdateCheck(r, RosterMix)
    \/ UserUpdateEmail(r)
    \/ UserUpdateWrite(r)
    \/ UserDeleteCheck(r, RosterMix)
    \/ UserDeleteWrite(r)
    \/ Finish(r)

NextRoster == \E r \in Workers : Roster(r)

SpecRoster == Init /\ [][NextRoster]_vars

----------------------------------------------------------------------------
(* Properties of the checkout / checkin state machine (specification Spec) *)

Done(r) == req[r].pc = "done"

\* Two checkout requests that both read the same item in the same available
\* state (same ledger position), each recording itself as the ledger user
Raced(r1, r2) ==
    /\ r1 # r2
    /\ Done(r1) /\ Done(r2)
    /\ req[r1].op = "checkout" /\ req[r2].op = "checkout"
    /\ req[r1].id = req[r2].id
    /\ req[r1].seen = "available" /\ req[r2].seen = "available"
    /\ req[r1].seenTx = req[r2].seenTx
    /\ req[r1].uid = NoStr /\ req[r2].uid = NoStr

Refused(r) == req[r].resp = Resp(400, Refusal(req[r].op), {})

\* C1: of two concurrent checkouts of the same available item exactly one
\* succeeds, the other is refused as an invalid transition, and exactly one
\* check_out row is appended for the item.
C1_ExactlyOneCheckoutWins ==
    \A r1, r2 \in Workers :
        Raced(r1, r2) =>
            /\ \/ req[r1].resp.code = 200 /\ Refused(r2)
               \/ req[r2].resp.code = 200 /\ Refused(r1)
            /\ Cardinality(ItemTxs(transactions, req[r1].id)) = req[r1].seenTx + 1

StatusMatchesLedger(i) ==
    items[i].status = "checked_out" <=> LastAction(transactions, i) = "check_out"

LeavesTx(r) == req[r].pc = "tx" /\ req'[r].pc # "tx"

Committed(r) ==
    LET id == req[r].id
    IN /\ req'[r].pc = "reread"
       /\ id \in DOMAIN items'
       /\ items'[id].status = Target(req[r].op)
       /\ \A j \in DOMAIN items' \ {id} : j \in DOMAIN items /\ items'[j] = items[j]
       /\ Len(transactions') = Len(transactions) + 1
       /\ SubSeq(transactions', 1, Len(transactions)) = transactions
       /\ transactions'[Len(transactions')].itemId = id
       /\ transactions'[Len(transactions')].action = ActionOf(req[r].op)

RolledBack(r) ==
    /\ items' = items
    /\ transactions' = transactions
    /\ req'[r].pc = "done"
    /\ req'[r].resp.code = 500

C4_AppendOnlyFromRequiredStatus ==
    [][Len(transactions') = Len(transactions) + 1 =>
          LET row == transactions'[Len(transactions')]
          IN /\ row.itemId \in DOMAIN items
             /\ items[row.itemId].status =
                   IF row.action = "check_out" THEN "available" ELSE "checked_out"]_vars

\* The step in which worker r reads the status of an item that is in the wrong
\* state for its checkout / checkin
ReadsWrongStatus(r) ==
    /\ req[r].pc = "handler" /\ req'[r].pc # "handler"
    /\ req[r].op \in {"checkout", "checkin"}
    /\ req[r].id \in DOMAIN items
    /\ items[req[r].id].troopId = req[r].troop
    /\ \/ req[r].op = "checkout" /\ items[req[r].id].status \in {"checked_out", "needs_repair"}
       \/ req[r].op = "checkin" /\ items[req[r].id].status \in {"available", "needs_repair"}

\* C5: a checkout of an item that is not available, and a checkin of an item
\* that is not checked out, is refused as an invalid transition, appends no
\* ledger row and leaves the item as it was.
C5_WrongStatusRefused ==
    [][\A r \in Workers :
          ReadsWrongStatus(r) =>
             /\ req'[r].pc = "done"
             /\ req'[r].resp.code = 400
             /\ req'[r].resp.msg = (IF req[r].op = "checkout"
                                    THEN "Item is not available for checkout"
                                    ELSE "Item is not checked out")
             /\ transactions' = transactions
             /\ items' = items]_vars

C5_Witness ==
    \E r \in Workers :
        /\ Done(r) /\ req[r].op = "checkout" /\ req[r].seen = "needs_repair"
        /\ req[r].resp = Resp(400, "Item is not available for checkout", {})
        /\ req[r].id \in DOMAIN items
        /\ items[req[r].id].status = "needs_repair"

\* The step in which worker r executes the UPDATE of PUT /items/:id
UpdateStep(r) == req[r].pc = "write" /\ req[r].op = "update" /\ req'[r].pc = "done"

\* C6 (as claimed): no update changes the status of an item.
C6_UpdateKeepsStatus ==
    [][\A r \in Workers :
          UpdateStep(r) =>
             \A i \in DOMAIN items : i \in DOMAIN items' /\ items'[i].status = items[i].status]_vars

\* C6 (amended): an update changes the status of its item only when its patch
\* carries a status, and then to the status of the patch; a patch without one
\* leaves every status as it was.  Every other change of a status is the
\* commit of a checkout or checkin of that item.
C6_UpdateKeepsStatusUnlessPatched ==
    [][/\ \A r \in Workers :
             UpdateStep(r) =>
                \A i \in DOMAIN items :
                   /\ i \in DOMAIN items'
                   /\ items'[i].status =
                         IF i = req[r].id /\ req'[r].status # NoStr
                         THEN req'[r].status ELSE items[i].status
       /\ \A i \in DOMAIN items \cap DOMAIN items' :
             items'[i].status # items[i].status =>
                \E r \in Workers :
                   /\ req[r].id = i
                   /\ \/ UpdateStep(r) /\ req'[r].status # NoStr
                      \/ req[r].pc = "tx" /\ req'[r].pc = "reread"]_vars

C6_Witness ==
    \E r \in Workers :
        /\ Done(r) /\ req[r].op = "update" /\ req[r].status = NoStr
        /\ req[r].resp.code = 200
        /\ \E v \in req[r].resp.body : v.id = req[r].id /\ v.status = "checked_out"

----------------------------------------------------------------------------
(* Properties of tenant isolation (specification SpecTenancy) *)

\* The step in which worker r runs the single statement of a read handler
HandlerReplies(r, op) == AtHandler(r, op) /\ req'[r].pc = "done"

InTroop(id, troop) == id \in DOMAIN items /\ items[id].troopId = troop

\* C7: GET /items/:id answers an id of another troop exactly as it answers an
\* id that exists nowhere, and GET /items returns only items of the resolved troop.
C7_ReadsStayInTroop ==
    [][\A r \in Workers :
          /\ HandlerReplies(r, "get") =>
                IF InTroop(req[r].id, req[r].troop)
                THEN /\ req'[r].resp.code = 200
                     /\ \A v \in req'[r].resp.body : v.id = req[r].id /\ v.troopId = req[r].troop
                ELSE req'[r].resp = Resp(404, "Item not found", {})
          /\ HandlerReplies(r, "list") =>
                \A v \in req'[r].resp.body : v.troopId = req[r].troop /\ InTroop(v.id, req[r].troop)]_vars

C7_Witness ==
    \E r \in Workers :
        /\ Done(r) /\ req[r].op = "get"
        /\ req[r].resp = Resp(404, "Item not found", {})
        /\ req[r].id \in DOMAIN items
        /\ items[req[r].id].troopId # req[r].troop

OthersRows(log, troop) == SelectSeq(log, LAMBDA row : row.troopId # troop)

\* Nothing that belongs to a troop other than the one worker r resolved changes
OthersUntouched(r) ==
    /\ \A i \in DOMAIN items :
          items[i].troopId # req[r].troop => i \in DOMAIN items' /\ items'[i] = items[i]
    /\ \A i \in DOMAIN items' :
          items'[i].troopId # req[r].troop => i \in DOMAIN items
    /\ OthersRows(transactions', req[r].troop) = OthersRows(transactions, req[r].troop)

\* C8: update, delete, checkout and checkin addressed to an item of another
\* troop fail with NotFound, and no step of a request changes an item or a
\* ledger row of a troop other than the one it was resolved to.
C8_WritesStayInTroop ==
    [][\A r \in Workers :
          /\ ( /\ req[r].pc = "handler" /\ req'[r].pc # "handler"
               /\ req[r].op \in {"update", "delete", "checkout", "checkin"}
               /\ req[r].id \in DOMAIN items
               /\ items[req[r].id].troopId # req[r].troop )
             => /\ req'[r].resp = Resp(404, "Item not found", {})
                /\ req'[r].pc = "done"
                /\ items' = items
                /\ transactions' = transactions
          /\ (req'[r] # req[r] /\ req[r].troop # NoStr) => OthersUntouched(r)]_vars

C8_Witness ==
    \E r \in Workers :
        /\ Done(r) /\ req[r].op \in {"update", "delete", "checkout", "checkin"}
        /\ req[r].resp = Resp(404, "Item not found", {})
        /\ req[r].id \in DOMAIN items
        /\ items[req[r].id].troopId # req[r].troop

\* Worker r serves a request whose verified token was issued to a member of a
\* troop other than the one its selector resolved to
CrossTenantToken(r) ==
    /\ req[r].tokUser \in DOMAIN users
    /\ users[req[r].tokUser].troopId = req[r].tokTroop
    /\ req[r].troop # NoStr
    /\ req[r].tokTroop # req[r].troop

\* C9: a request with a valid token of troop A and the selector of another
\* troop B is answered 401 by authenticate and never gets a user or a handler.
C9_CrossTenantTokenRejected ==
    \A r \in Workers :
        CrossTenantToken(r) =>
            /\ Done(r)
            /\ req[r].resp = Resp(401, "Invalid token or user not found", {})
            /\ req[r].user = NoStr

C9_Witness ==
    \E r \in Workers :
        /\ CrossTenantToken(r) /\ req[r].tokUser = "uA" /\ req[r].troop = "tB"
        /\ Done(r) /\ req[r].resp.code = 401
        /\ items # <<>>

\* C10: a scan of a well-formed payload that names another troop's slug is
\* answered 403 whether or not the payload's item exists in the requesting troop.
C10_ForeignPayloadRefused ==
    [][\A r \in Workers :
          ( /\ HandlerReplies(r, "scan")
            /\ req'[r].qr.json /\ req'[r].qr.type = "quartermaster_item"
            /\ req'[r].qr.itemId # NoId /\ req'[r].qr.timestamp # 0
            /\ req'[r].qr.troopSlug # ""
            /\ req'[r].qr.troopSlug # troops[req[r].troop].slug )
          => req'[r].resp = Resp(403, "QR code does not belong to your troop", {})]_vars

C10_Witness ==
    \E r \in Workers :
        /\ Done(r) /\ req[r].op = "scan"
        /\ req[r].resp = Resp(403, "QR code does not belong to your troop", {})
        /\ InTroop(req[r].qr.itemId, req[r].troop)

\* C20: every ledger row carries the troop of the item it references.
C20_LedgerRowInItemTroop ==
    \A k \in 1..Len(transactions) :
        /\ transactions[k].itemId \in DOMAIN items
        /\ transactions[k].troopId = items[transactions[k].itemId].troopId

C20_Witness ==
    /\ Len(transactions) = 1
    /\ transactions[1].troopId = "tB" /\ transactions[1].action = "check_out"
    /\ \E r \in Workers :
          /\ Done(r) /\ req[r].troop = "tA" /\ req[r].op = "checkout"
          /\ req[r].id = transactions[1].itemId
          /\ req[r].resp = Resp(404, "Item not found", {})

----------------------------------------------------------------------------
(* Properties of the QR codec (specification SpecTenancy) *)

\* The step in which worker r encodes the payload of its item
Mints(r) == HandlerReplies(r, "mint") /\ req'[r].resp.code = 200

----------------------------------------------------------------------------
(* Properties of the middleware chain (specification SpecTenancy) *)

\* The roles the role matrix permits for the operations that are gated
Permitted(op) ==
    CASE op = "delete" -> {"admin"}
      [] op \in {"create", "update"} -> {"admin", "leader"}
      [] op \in {"checkout", "checkin", "scan"} -> {"admin", "leader", "scout"}
      [] OTHER -> Roles

StoreUnchanged ==
    /\ users' = users /\ items' = items /\ transactions' = transactions

\* C13: a principal whose role is outside the permitted set of its operation
\* is answered 403 with the required roles and its own role; only a permitted
\* role ever changes an item or the ledger, and a viewer never does.
C13_RoleGate ==
    [][\A r \in Workers :
          /\ (req[r].pc = "authz" /\ req[r].role \notin Permitted(req[r].op)) =>
                /\ req'[r].pc = "done"
                /\ req'[r].resp = Resp(403, "Insufficient permissions",
                                       {[requiredRoles |-> Permitted(req[r].op),
                                         userRole |-> req[r].role]})
                /\ StoreUnchanged
          /\ (req'[r] # req[r] /\ (items' # items \/ transactions' # transactions)) =>
                /\ req[r].role \in Permitted(req[r].op)
                /\ req[r].role # "viewer"]_vars

C13_Witness ==
    \E r \in Workers :
        /\ Done(r) /\ req[r].op = "checkout" /\ req[r].role = "viewer"
        /\ req[r].resp.code = 403
        /\ \E i \in DOMAIN items : items[i].troopId = req[r].troop /\ items[i].status = "available"

\* The users row a verified token names, within the resolved troop
NamesMember(r) ==
    /\ req'[r].tokUser \in DOMAIN users
    /\ users[req'[r].tokUser].troopId = req[r].troop

NoSuchTroop(slug) == \A t \in DOMAIN troops : troops[t].slug # slug

----------------------------------------------------------------------------
(* Properties of user administration (specification SpecUsers) *)

\* The step in which the users handler of worker r looks at a request that
\* would demote or delete the requester's own row
SelfRequest(r) ==
    /\ req[r].pc = "handler" /\ req'[r].pc # "handler"
    /\ req'[r].target = req[r].user
    /\ \/ req[r].op = "userDelete"
       \/ req[r].op = "userUpdate" /\ req'[r].newRole \notin {NoStr, "admin"}

SelfRefusal(op) ==
    IF op = "userDelete" THEN "Cannot delete your own account"
    ELSE "Cannot change your own admin role"

\* No step of a request removes the row of its requester or gives it a role
\* other than admin
KeepsOwnAdmin(r) ==
    (req'[r] # req[r] /\ req[r].user \in DOMAIN users) =>
        /\ req[r].user \in DOMAIN users'
        /\ users'[req[r].user].role \in {users[req[r].user].role, "admin"}

\* C12 (as claimed): an update that would demote the requesting admin, and a
\* delete of the requesting admin, is answered 403 and changes no users row.
C12_SelfGuard ==
    [][\A r \in Workers :
          /\ SelfRequest(r) =>
                /\ req'[r].pc = "done"
                /\ req'[r].resp = Resp(403, SelfRefusal(req[r].op), {})
                /\ users' = users
          /\ KeepsOwnAdmin(r)]_vars

\* C12 (amended): such a request changes no users row and is answered 403,
\* except that a self-demoting update whose requester's row was deleted by
\* another admin after the requester authenticated is answered 404.
C12_SelfGuardUnlessDeleted ==
    [][\A r \in Workers :
          /\ SelfRequest(r) =>
                /\ req'[r].pc = "done"
                /\ users' = users
                /\ IF req[r].op = "userUpdate" /\ req[r].user \notin DOMAIN users
                   THEN req'[r].resp = Resp(404, "User not found", {})
                   ELSE req'[r].resp = Resp(403, SelfRefusal(req[r].op), {})
          /\ KeepsOwnAdmin(r)]_vars

C12_Witness ==
    \E r \in Workers :
        /\ Done(r) /\ req[r].op = "userUpdate" /\ req[r].target = req[r].user
        /\ req[r].newRole = "scout"
        /\ req[r].resp = Resp(403, "Cannot change your own admin role", {})
        /\ req[r].user \in DOMAIN users /\ users[req[r].user].role = "admin"
        /\ \E u \in DOMAIN users :
              u # req[r].user /\ users[u].role = "admin" /\ users[u].troopId = req[r].troop

\* The step in which authenticate looks up the user of a verified token
\* whose users row has been deleted
DeletedUserAuthenticates(r) ==
    /\ req[r].pc = "auth" /\ req'[r] # req[r]
    /\ req'[r].tokKind = "signed"
    /\ req'[r].tokUser \in DOMAIN SeedUsers
    /\ req'[r].tokUser \notin DOMAIN users

\* C15: a request authenticated after the users row of its token was deleted
\* is answered 401, runs no handler and changes nothing; a deleted users row
\* never comes back.
C15_DeletedUserRejected ==
    [][/\ \A r \in Workers :
             DeletedUserAuthenticates(r) =>
                /\ req'[r].pc = "done"
                /\ req'[r].resp = Resp(401, "Invalid token or user not found", {})
                /\ req'[r].user = NoStr
                /\ StoreUnchanged
       /\ \A u \in DOMAIN SeedUsers : u \notin DOMAIN users => u \notin DOMAIN users']_vars

C15_Witness ==
    \E r \in Workers :
        /\ Done(r) /\ req[r].tokKind = "signed" /\ req[r].tokUser = "uS"
        /\ "uS" \notin DOMAIN users
        /\ req[r].resp = Resp(401, "Invalid token or user not found", {})

\* The ledger grows by one row at its end
Appends == 
    /\ Len(transactions') = Len(transactions) + 1
    /\ SubSeq(transactions', 1, Len(transactions)) = transactions

\* Worker r deletes its item, and all ledger rows of that item and no others go with it
DeletesItem(r) ==
    /\ req[r].op = "delete" /\ req[r].pc = "write" /\ req'[r].pc = "done"
    /\ req[r].id \notin DOMAIN items'
    /\ transactions' = SelectSeq(transactions, LAMBDA row : row.itemId # req[r].id)

\* C19: every step leaves the ledger as it is, appends one row to it, or
\* deletes an item together with exactly the rows of that item; a user
\* delete never removes or alters a row.
C19_LedgerAppendOnly ==
    [][/\ \/ transactions' = transactions
          \/ Appends
          \/ \E r \in Workers : DeletesItem(r)
       /\ \A r \in Workers :
             (req[r].op = "userDelete" /\ req'[r] # req[r]) => transactions' = transactions]_vars

C19_Witness ==
    \E r \in Workers :
        /\ Done(r) /\ req[r].op = "userDelete" /\ req[r].target = "uS"
        /\ req[r].resp = Resp(500, "Internal server error", {})
        /\ Len(transactions) = 2
        /\ \A k \in 1..Len(transactions) : transactions[k].userId = "uS"

----------------------------------------------------------------------------
(* Properties of enrolment (specification SpecEmails) *)

\* C17: no two users of the same troop have the same email.
C17_EmailUniquePerTroop ==
    \A u, v \in DOMAIN users :
        (u # v /\ users[u].troopId = users[v].troopId) => users[u].email # users[v].email

----------------------------------------------------------------------------
(* Properties of the QR code column (specification SpecCatalog) *)

----------------------------------------------------------------------------
(* Further properties of the checkout / checkin state machine              *)
(* (specification Spec)                                                     *)

\* The step in which the transaction of worker r's checkout / checkin commits
CommitsTx(r) == req[r].pc = "tx" /\ req'[r].pc = "reread"

\* C23: no checkout or checkin commits a status onto an item whose stored
\* status is needs_repair at that moment; an item leaves needs_repair, and
\* enters it, only in the write of an update.
C23_RepairOnlyByUpdate ==
    [][/\ \A r \in Workers :
             CommitsTx(r) =>
                (req[r].id \in DOMAIN items => items[req[r].id].status # "needs_repair")
       /\ \A i \in DOMAIN items \cap DOMAIN items' :
             ( /\ items'[i].status # items[i].status
               /\ "needs_repair" \in {items[i].status, items'[i].status} )
             => \E r \in Workers : UpdateStep(r) /\ req[r].id = i]_vars

\* The ledger rows of one item, in insertion order
ItemLog(log, id) == SelectSeq(log, LAMBDA row : row.itemId = id)

\* C24: the ledger rows of every item start with a check_out, and no two
\* consecutive rows of an item carry the same action.
C24_LedgerAlternates ==
    \A i \in DOMAIN items :
        LET l == ItemLog(transactions, i)
        IN /\ l # <<>> => l[1].action = "check_out"
           /\ \A k \in 1..(Len(l) - 1) : l[k].action # l[k + 1].action

\* C25: a checkout answered 200 returns its item with status checked_out,
\* and a checkin answered 200 returns its item with status available.
C25_SuccessReturnsNewStatus ==
    \A r \in Workers :
        (Done(r) /\ req[r].op \in {"checkout", "checkin"} /\ req[r].resp.code = 200) =>
            req[r].resp.body =
                {[id |-> req[r].id, troopId |-> req[r].troop, status |-> Target(req[r].op)]}

----------------------------------------------------------------------------
(* Properties of failing requests (specification SpecOutcomes) *)

\* The outcomes of tenant resolution, authentication, authorization,
\* validation, NotFound and InvalidTransition
FailureCodes == {400, 401, 403, 404}

\* The step in which worker r gets its response
Answers(r) == req[r].pc # "done" /\ req'[r].pc = "done"

\* C21: the step that answers a request with 400, 401, 403 or 404 changes no
\* table, and no request is answered so after a step of it changed one: a
\* step that changes a table is the write of a handler, after which the
\* request is answered 200 or 201, at once or by the re-read that follows a
\* committed checkout / checkin.
C21_FailuresWriteNothing ==
    [][\A r \in Workers :
          /\ (Answers(r) /\ req'[r].resp.code \in FailureCodes) => StoreUnchanged
          /\ (req'[r] # req[r] /\ ~StoreUnchanged) =>
                /\ req[r].pc \in {"write", "tx"}
                /\ \/ req'[r].pc = "reread"
                   \/ req'[r].pc = "done" /\ req'[r].resp.code \in {200, 201}
          /\ (req[r].pc = "reread" /\ req'[r] # req[r]) =>
                req'[r].pc = "done" /\ req'[r].resp.code = 200]_vars

C21_Witness ==
    \E r \in Workers :
        /\ Done(r) /\ req[r].op = "checkout"
        /\ req[r].resp = Resp(400, "Item is not available for checkout", {})
        /\ Len(transactions) = 2
        /\ \E w \in Workers :
              /\ Done(w) /\ req[w].op = "userUpdate" /\ req[w].target = "uGone"
              /\ req[w].resp = Resp(404, "User not found", {})
        /\ users["uL"].role = "scout"

----------------------------------------------------------------------------
(* Properties of the users router (specification SpecRoster) *)

\* The roles the role matrix permits for user administration
PermittedUsers(op) == IF op \in UserReads THEN {"admin", "leader"} ELSE {"admin"}

\* C22: a request has the role stored for its user when it authenticates;
\* listing and reading users passes the gate only for a role of admin or
\* leader, creating, updating and deleting one only for admin; every other
\* role is answered 403, and only a request of an admin ever creates,
\* changes or removes a users row.
C22_UserAdminGate ==
    [][\A r \in Workers :
          /\ (req[r].pc = "auth" /\ req'[r].pc = "authz") =>
                req'[r].role = users[req'[r].user].role
          /\ (req[r].pc = "authz" /\ req'[r] # req[r]) =>
                /\ IF req[r].role \in PermittedUsers(req[r].op)
                   THEN req'[r].pc = "valid"
                   ELSE /\ req'[r].pc = "done"
                        /\ req'[r].resp.code = 403
                        /\ req'[r].resp.msg = "Insufficient permissions"
                /\ users' = users
          /\ (Answers(r) /\ req'[r].resp.code \in {200, 201}) =>
                req[r].role \in PermittedUsers(req[r].op)
          /\ (req'[r] # req[r] /\ users' # users) =>
                req[r].op \in UserOps /\ req[r].role = "admin"]_vars

C22_Witness ==
    \E r \in Workers :
        /\ Done(r) /\ req[r].op = "userDelete" /\ req[r].role = "leader"
        /\ req[r].resp.code = 403
        /\ nextUser = 2
        /\ "uV" \in DOMAIN users

----------------------------------------------------------------------------
(* Further properties of user administration (specification SpecUsers) *)

\* C27: every troop keeps at least one admin.
C27_TroopKeepsAnAdmin ==
    \A t \in DOMAIN troops :
        \E u \in DOMAIN users : users[u].troopId = t /\ users[u].role = "admin"

\* The role matrix of all routes
Matrix(op) == IF op \in UserOps \cup UserReads THEN PermittedUsers(op) ELSE Permitted(op)

\* C28: authenticate gives the request the role stored for the user of the
\* token at that moment, whatever role the token was issued with, and
\* authorize admits or refuses the request by that role.
C28_StoredRoleDecides ==
    [][\A r \in Workers :
          /\ (req[r].pc = "auth" /\ req'[r].pc = "authz") =>
                /\ req'[r].user = req'[r].tokUser
                /\ req'[r].role = users[req'[r].tokUser].role
          /\ (req[r].pc = "authz" /\ req'[r] # req[r]) =>
                IF req[r].role \in Matrix(req[r].op)
                THEN req'[r].pc = "valid"
                ELSE req'[r].pc = "done" /\ req'[r].resp.code = 403]_vars

C28_Witness ==
    \E r, w \in Workers :
        /\ Done(r) /\ req[r].tokUser = "uA" /\ req[r].role = "scout"
        /\ req[r].op = "userUpdate" /\ req[r].resp.code = 403
        /\ Done(w) /\ req[w].tokUser = "uS" /\ req[w].role = "admin"
        /\ req[w].op = "userUpdate" /\ req[w].resp.code = 200

----------------------------------------------------------------------------
(* Properties of the ledger's user column (specification SpecCatalog) *)

\* C29: the user a ledger row names is a user of the troop of that row.
C29_LedgerUserInTroop ==
    \A k \in 1..Len(transactions) :
        transactions[k].userId # NoStr =>
            /\ transactions[k].userId \in DOMAIN users
            /\ users[transactions[k].userId].troopId = transactions[k].troopId

----------------------------------------------------------------------------
(* Properties of minted payloads (specification SpecLabels) *)

\* A payload the label route issues for the troop: well-formed, with the slug of the troop
IssuedFor(q, troop) == parseQRCode(q) /\ q.troopSlug = troops[troop].slug

\* C30: a payload is minted only for an item found in the resolved troop and
\* carries that item's id and that troop's slug; a scan of such a payload in
\* that troop returns the item of the payload while it exists there and
\* NotFound once it is gone, and no scan returns any other item.
C30_MintedPayloadFindsItsItem ==
    [][\A r \in Workers :
          /\ HandlerReplies(r, "mint") =>
                IF InTroop(req[r].id, req[r].troop)
                THEN /\ req'[r].resp.code = 200
                     /\ req'[r].qr.itemId = req[r].id
                     /\ IssuedFor(req'[r].qr, req[r].troop)
                ELSE /\ req'[r].resp = Resp(404, "Item not found", {})
                     /\ req'[r].qr = NoQR
          /\ (HandlerReplies(r, "scan") /\ IssuedFor(req'[r].qr, req[r].troop)) =>
                IF InTroop(req'[r].qr.itemId, req[r].troop)
                THEN req'[r].resp = Resp(200, "ok", {ItemView(items, req'[r].qr.itemId)})
                ELSE req'[r].resp = Resp(404, "Item not found or has been deleted", {})
          /\ (HandlerReplies(r, "scan") /\ req'[r].resp.code = 200) =>
                \A v \in req'[r].resp.body :
                    v.id = req'[r].qr.itemId /\ v.troopId = req[r].troop]_vars

C30_Witness ==
    \E r, w \in Workers :
        /\ Done(r) /\ req[r].op = "mint" /\ req[r].resp.code = 200
        /\ Done(w) /\ req[w].op = "scan"
        /\ req[w].qr = req[r].qr /\ req[w].troop = req[r].troop
        /\ req[w].resp = Resp(404, "Item not found or has been deleted", {})
        /\ req[r].id \notin DOMAIN items
        /\ \E i \in DOMAIN items : items[i].troopId = req[r].troop

----------------------------------------------------------------------------
(* Properties of the item list (specification SpecShelves) *)

\* part occurs in text, letters compared without regard to case
Contains(text, part) ==
    \E k \in 0..(Len(text) - Len(part)) :
        \A j \in 1..Len(part) : Fold(text[k + j]) = Fold(part[j])

\* The row satisfies every filter that is supplied
Satisfies(row, f) ==
    /\ f.category # NoStr => row.category = f.category
    /\ f.status # NoStr => row.status = f.status
    /\ f.location # NoText =>
          f.location = Spell[row.locationSide] \o <<"-">> \o Spell[row.locationLevel]
    /\ f.search # NoText =>
          \/ Contains(Spell[row.name], f.search)
          \/ row.description # NoStr /\ Contains(Spell[row.description], f.search)

\* C26: GET /items returns exactly the items of the resolved troop that
\* satisfy every supplied filter: category, status, location as the
\* side-level pair, search as a substring of the name or the description.
C26_ListReturnsTheMatches ==
    [][\A r \in Workers :
          HandlerReplies(r, "list") =>
             req'[r].resp =
                Resp(200, "ok",
                     {ItemView(items, i) : i \in
                         {j \in DOMAIN items : /\ items[j].troopId = req[r].troop
                                               /\ Satisfies(items[j], req'[r].filter)}})]_vars

====
